---- MODULE Spec2Model ----
(***************************************************************************)
(* Model of the Moltbook tool layer of the elcachorrohumano agent          *)
(* (src/tools/moltbook.py): the credential store, the request wrapper      *)
(* api_request and the tool functions built on it.                         *)
(*                                                                         *)
(* Representation.  A Python str is a sequence of chunks (each chunk a     *)
(* TLA+ string standing for a run of characters), so that f-strings are    *)
(* concatenations and "contains" is a statement about chunks.  A Python    *)
(* value is a tagged record (none / bool / int / str / list / dict); a     *)
(* raised exception is the tagged record Raise(exc, msg).  File contents   *)
(* and HTTP bodies are text (chunk sequences) and json.dumps / json.loads  *)
(* are computed on that text.                                              *)
(*                                                                         *)
(* The interactive loop of src/agent.py is modelled next to it: repl holds *)
(* the position of the loop and what its last iteration read, raised,      *)
(* called and printed.  There a line of input is a sequence of characters. *)
(***************************************************************************)
EXTENDS Integers, Sequences, FiniteSets, TLC

VARIABLES dirExists, file, localFiles, localDirs, call, repl

vars == <<dirExists, file, localFiles, localDirs, call, repl>>

\* ---------------------------------------------------------------- bounds
MaxNum == 2

\* ---------------------------------------------------------- Python values
None == [k |-> "none"]
PyBool(b) == [k |-> "bool", b |-> b]
PyInt(n) == [k |-> "int", n |-> n]
Str(s) == [k |-> "str", s |-> s]
List(l) == [k |-> "list", l |-> l]
Dict(d) == [k |-> "dict", d |-> d]
Raise(exc, msg) == [k |-> "raise", exc |-> exc, msg |-> msg]

EmptyMap == [key \in {} |-> None]
EmptyDict == Dict(EmptyMap)

IsRaise(v) == v.k = "raise"
IsDict(v) == v.k = "dict"

\* bool(v): Python truthiness
Truthy(v) ==
    CASE v.k = "none" -> FALSE
      [] v.k = "bool" -> v.b
      [] v.k = "int"  -> v.n # 0
      [] v.k = "str"  -> Len(v.s) > 0
      [] v.k = "list" -> Len(v.l) > 0
      [] v.k = "dict" -> DOMAIN v.d # {}

\* v.get(key, default): only a dict has .get
Get(v, key, default) ==
    IF ~IsDict(v) THEN Raise("AttributeError", <<"object has no attribute 'get'">>)
    ELSE IF key \in DOMAIN v.d THEN v.d[key] ELSE default

RECURSIVE PyRepr(_)
RECURSIVE ReprMembers(_, _)
RECURSIVE ReprElements(_)

ReprMembers(d, keys) ==
    IF keys = {} THEN <<>>
    ELSE LET key == CHOOSE x \in keys : TRUE
             rest == keys \ {key}
         IN  <<"'", key, "'", ": ">> \o PyRepr(d[key])
             \o (IF rest = {} THEN <<>> ELSE <<", ">> \o ReprMembers(d, rest))

ReprElements(l) ==
    IF Len(l) = 0 THEN <<>>
    ELSE PyRepr(Head(l)) \o (IF Len(l) = 1 THEN <<>> ELSE <<", ">> \o ReprElements(Tail(l)))

\* repr(v)
PyRepr(v) ==
    CASE v.k = "none" -> <<"None">>
      [] v.k = "bool" -> IF v.b THEN <<"True">> ELSE <<"False">>
      [] v.k = "int"  -> <<ToString(v.n)>>
      [] v.k = "str"  -> <<"'">> \o v.s \o <<"'">>
      [] v.k = "list" -> <<"[">> \o ReprElements(v.l) \o <<"]">>
      [] v.k = "dict" -> <<"{">> \o ReprMembers(v.d, DOMAIN v.d) \o <<"}">>

\* str(v), as f"{v}" formats it
PyStr(v) == IF v.k = "str" THEN v.s ELSE PyRepr(v)

\* ------------------------------------------------------------------ JSON
Quote == "\""
Backslash == "\\"
Whitespace == {" ", "\n"}
JsonNumbers == 0..MaxNum

RECURSIVE EscapeChunks(_)
EscapeChunks(s) ==
    IF Len(s) = 0 THEN <<>>
    ELSE (IF Head(s) \in {Quote, Backslash} THEN <<Backslash, Head(s)>> ELSE <<Head(s)>>)
         \o EscapeChunks(Tail(s))

EncodeString(s) == <<Quote>> \o EscapeChunks(s) \o <<Quote>>

RECURSIVE dumps(_)
RECURSIVE DumpMembers(_, _)
RECURSIVE DumpElements(_)

DumpMembers(d, keys) ==
    IF keys = {} THEN <<>>
    ELSE LET key == CHOOSE x \in keys : TRUE
             rest == keys \ {key}
         IN  EncodeString(<<key>>) \o <<":", " ">> \o dumps(d[key])
             \o (IF rest = {} THEN <<"\n">> ELSE <<",", "\n">> \o DumpMembers(d, rest))

DumpElements(l) ==
    IF Len(l) = 0 THEN <<>>
    ELSE dumps(Head(l))
         \o (IF Len(l) = 1 THEN <<"\n">> ELSE <<",", "\n">> \o DumpElements(Tail(l)))

\* json.dumps(v, indent=2): the text of v (members one per line)
dumps(v) ==
    CASE v.k = "none" -> <<"null">>
      [] v.k = "bool" -> IF v.b THEN <<"true">> ELSE <<"false">>
      [] v.k = "int"  -> <<ToString(v.n)>>
      [] v.k = "str"  -> EncodeString(v.s)
      [] v.k = "list" -> IF Len(v.l) = 0 THEN <<"[", "]">>
                         ELSE <<"[", "\n">> \o DumpElements(v.l) \o <<"]">>
      [] v.k = "dict" -> IF DOMAIN v.d = {} THEN <<"{", "}">>
                         ELSE <<"{", "\n">> \o DumpMembers(v.d, DOMAIN v.d) \o <<"}">>

ParseFail(i) == [ok |-> FALSE, v |-> None, i |-> i]
ParseOk(v, i) == [ok |-> TRUE, v |-> v, i |-> i]

RECURSIVE SkipWs(_, _)
SkipWs(t, i) == IF i <= Len(t) /\ t[i] \in Whitespace THEN SkipWs(t, i + 1) ELSE i

\* scans the chunks of a string literal whose opening quote is at i - 1
RECURSIVE ScanString(_, _, _)
ScanString(t, i, acc) ==
    IF i > Len(t) THEN ParseFail(i)
    ELSE IF t[i] = Quote THEN ParseOk(Str(acc), i + 1)
    ELSE IF t[i] = Backslash
         THEN IF i + 1 <= Len(t) /\ t[i + 1] \in {Quote, Backslash}
              THEN ScanString(t, i + 2, Append(acc, t[i + 1]))
              ELSE ParseFail(i)
    ELSE ScanString(t, i + 1, Append(acc, t[i]))

RECURSIVE ParseValue(_, _)
RECURSIVE ParseMembers(_, _, _)
RECURSIVE ParseElements(_, _, _)

\* members of an object after "{" or ","; i is at the key
ParseMembers(t, i0, acc) ==
    LET i == SkipWs(t, i0) IN
    IF i > Len(t) \/ t[i] # Quote THEN ParseFail(i)
    ELSE LET key == ScanString(t, i + 1, <<>>) IN
         IF ~key.ok \/ Len(key.v.s) # 1 THEN ParseFail(i)
         ELSE LET c == SkipWs(t, key.i) IN
              IF c > Len(t) \/ t[c] # ":" THEN ParseFail(c)
              ELSE LET val == ParseValue(t, c + 1) IN
                   IF ~val.ok THEN val
                   ELSE LET n == SkipWs(t, val.i)
                            d == (key.v.s[1] :> val.v) @@ acc
                        IN  IF n > Len(t) THEN ParseFail(n)
                            ELSE IF t[n] = "}" THEN ParseOk(Dict(d), n + 1)
                            ELSE IF t[n] = "," THEN ParseMembers(t, n + 1, d)
                            ELSE ParseFail(n)

ParseElements(t, i0, acc) ==
    LET val == ParseValue(t, i0) IN
    IF ~val.ok THEN val
    ELSE LET n == SkipWs(t, val.i)
             l == Append(acc, val.v)
         IN  IF n > Len(t) THEN ParseFail(n)
             ELSE IF t[n] = "]" THEN ParseOk(List(l), n + 1)
             ELSE IF t[n] = "," THEN ParseElements(t, n + 1, l)
             ELSE ParseFail(n)

ParseValue(t, i0) ==
    LET i == SkipWs(t, i0) IN
    IF i > Len(t) THEN ParseFail(i)
    ELSE LET c == t[i] IN
         IF c = "null" THEN ParseOk(None, i + 1)
         ELSE IF c = "true" THEN ParseOk(PyBool(TRUE), i + 1)
         ELSE IF c = "false" THEN ParseOk(PyBool(FALSE), i + 1)
         ELSE IF \E n \in JsonNumbers : ToString(n) = c
              THEN ParseOk(PyInt(CHOOSE n \in JsonNumbers : ToString(n) = c), i + 1)
         ELSE IF c = Quote THEN ScanString(t, i + 1, <<>>)
         ELSE IF c = "{"
              THEN LET j == SkipWs(t, i + 1) IN
                   IF j <= Len(t) /\ t[j] = "}" THEN ParseOk(EmptyDict, j + 1)
                   ELSE ParseMembers(t, i + 1, EmptyMap)
         ELSE IF c = "["
              THEN LET j == SkipWs(t, i + 1) IN
                   IF j <= Len(t) /\ t[j] = "]" THEN ParseOk(List(<<>>), j + 1)
                   ELSE ParseElements(t, i + 1, <<>>)
         ELSE ParseFail(i)

\* the end of json.loads: r is the document parsed from the start of t
Decoded(t, r) ==
    IF ~r.ok THEN Raise("JSONDecodeError", <<"Expecting value">>)
    ELSE IF SkipWs(t, r.i) <= Len(t) THEN Raise("JSONDecodeError", <<"Extra data">>)
    ELSE r.v

\* json.loads(t): the value of the text, or JSONDecodeError
loads(t) == Decoded(t, ParseValue(t, 1))

\* ------------------------------------------------------- credential store
CREDENTIALS_FILE == <<"~", "/.config/moltbook/", "credentials.json">>
MOLTBOOK_API_BASE == <<"https://www.moltbook.com/api/v1">>

NoFile == [exists |-> FALSE, text |-> <<>>]
FileWith(t) == [exists |-> TRUE, text |-> t]

\* load_credentials with parse failures swallowed (None for a bad file)
NoneIfRaised(v) == IF IsRaise(v) THEN None ELSE v
load_credentials_lenient(f) == IF f.exists THEN NoneIfRaised(loads(f.text)) ELSE None

\* load_credentials(): the record, None, or the exception of json.loads
load_credentials(f) == IF f.exists THEN loads(f.text) ELSE None

\* the filesystem as the store sees it: the directory and the file
FS == [dirExists |-> dirExists, file |-> file]

\* save_credentials updating the stored record instead of replacing it
save_credentials_merge(fs, credentials) ==
    LET old == IF fs.file.exists THEN loads(fs.file.text) ELSE None IN
    [dirExists |-> TRUE,
     file |-> FileWith(dumps(IF IsDict(old) /\ IsDict(credentials)
                             THEN Dict(credentials.d @@ old.d)
                             ELSE credentials))]

\* save_credentials(credentials): mkdir(parents, exist_ok) then write_text,
\* which truncates and replaces whatever the file held
save_credentials(fs, credentials) ==
    [dirExists |-> TRUE, file |-> FileWith(dumps(credentials))]

\* get_auth_headers without the check of the api_key field
AuthHeaders_any_record(credentials) ==
    IF IsRaise(credentials) THEN credentials
    ELSE IF ~Truthy(credentials) THEN EmptyDict
    ELSE IF ~IsDict(credentials) \/ "api_key" \notin DOMAIN credentials.d
         THEN Raise("KeyError", <<"'api_key'">>)
    ELSE Dict("Authorization" :> Str(<<"Bearer ">> \o PyStr(credentials.d["api_key"])))

\* get_auth_headers(): {} when there is no usable key, else the bearer header
AuthHeaders(credentials) ==
    IF IsRaise(credentials) THEN credentials
    ELSE IF ~Truthy(credentials) THEN EmptyDict
    ELSE LET api_key == Get(credentials, "api_key", None) IN
         IF IsRaise(api_key) THEN api_key
         ELSE IF ~Truthy(api_key) THEN EmptyDict
         ELSE Dict("Authorization" :> Str(<<"Bearer ">> \o PyStr(api_key)))

get_auth_headers(f) == AuthHeaders(load_credentials(f))

\* ------------------------------------------------------------ HTTP layer
\* What the network does with one request: a transport exception, or a
\* response with a status code and a body text.
TransportError(exc, msg) ==
    [kind |-> "error", exc |-> exc, msg |-> msg, status |-> 0, text |-> <<>>]
Response(status, text) ==
    [kind |-> "response", exc |-> "", msg |-> <<>>, status |-> status, text |-> text]

\* Response.is_success
is_success(status) == status >= 200 /\ status <= 299

\* str(HTTPStatusError) as Response.raise_for_status builds it
StatusErrorMessage(status, url) ==
    LET error_type == CASE status \div 100 = 1 -> "Informational response"
                        [] status \div 100 = 3 -> "Redirect response"
                        [] status \div 100 = 4 -> "Client error"
                        [] OTHER               -> "Server error"
    IN  <<error_type, " '", ToString(status), "' for url '">> \o url \o <<"'">>

Failure(error) == Dict([success |-> PyBool(FALSE), error |-> error])
FailureWithHint(error, hint) ==
    Dict([success |-> PyBool(FALSE), error |-> error, hint |-> hint])

NOT_REGISTERED == <<"Not registered on Moltbook. Use register_on_moltbook first.">>

\* a second attempt after a transport failure
RequestsSent_retry(req, net) == IF net.kind = "error" THEN <<req, req>> ELSE <<req>>

\* the requests one api_request sends once its headers are built
RequestsSent(req, net) == <<req>>

\* the outer handler letting the exception through
OnException_reraise(exc, msg) == Raise(exc, msg)

\* except Exception as e (outer handler)
OnException(exc, msg) == Failure(Str(msg))

\* the status handler dropping the hint
StatusFailure_no_hint(status, text, url, error_data) ==
    LET error == Get(error_data, "error", Str(StatusErrorMessage(status, url)))
    IN  IF IsRaise(error_data) \/ IsRaise(error)
        THEN Failure(Str(<<ToString(status), " - ">> \o text))
        ELSE Failure(error)

\* the status handler reporting a non-JSON body without the status code
StatusFailure_no_status(status, text, url, error_data) ==
    LET error == Get(error_data, "error", Str(StatusErrorMessage(status, url)))
        hint == Get(error_data, "hint", None)
    IN  IF IsRaise(error_data) \/ IsRaise(error) \/ IsRaise(hint)
        THEN Failure(Str(text))
        ELSE FailureWithHint(error, hint)

\* the handler's body, error_data being what e.response.json() gave
StatusFailure(status, text, url, error_data) ==
    LET error == Get(error_data, "error", Str(StatusErrorMessage(status, url)))
        hint == Get(error_data, "hint", None)
    IN  IF IsRaise(error_data) \/ IsRaise(error) \/ IsRaise(hint)
        THEN Failure(Str(<<ToString(status), " - ">> \o text))
        ELSE FailureWithHint(error, hint)

\* except httpx.HTTPStatusError as e
OnStatusError(status, text, url) == StatusFailure(status, text, url, loads(text))

\* the success path marking the body as a success
Returned_marked(body) ==
    IF IsRaise(body) THEN Failure(Str(body.msg))
    ELSE IF IsDict(body) THEN Dict(("success" :> PyBool(TRUE)) @@ body.d)
    ELSE body

\* what api_request returns when response.json() gave body
Returned(body) == IF IsRaise(body) THEN OnException(body.exc, body.msg) ELSE body

\* return response.json() after raise_for_status() passed
OnSuccess(text) == Returned(loads(text))

\* the try block of api_request
Attempt(req, net) ==
    IF net.kind = "error" THEN OnException(net.exc, net.msg)
    ELSE IF ~is_success(net.status) THEN OnStatusError(net.status, net.text, req.url)
    ELSE OnSuccess(net.text)

NoDescriptor ==
    [called |-> FALSE, method |-> "", endpoint |-> <<>>, json_data |-> None,
     params |-> None, require_auth |-> FALSE]

\* api_request from line 52 on, auth_headers being what get_auth_headers()
\* gave ({} when require_auth is false)
Request(auth_headers, net, descr) ==
    IF IsRaise(auth_headers)
    THEN [ret |-> auth_headers, reqs |-> <<>>, descr |-> descr]
    ELSE IF descr.require_auth /\ ~Truthy(auth_headers)
    THEN [ret |-> Failure(Str(NOT_REGISTERED)), reqs |-> <<>>, descr |-> descr]
    ELSE LET req == [method |-> descr.method,
                     url |-> MOLTBOOK_API_BASE \o descr.endpoint,
                     json |-> descr.json_data,
                     params |-> descr.params,
                     headers |-> auth_headers.d @@
                                 ("Content-Type" :> Str(<<"application/json">>)),
                     files |-> None,
                     timeout |-> 30]
         IN  [ret |-> Attempt(req, net), reqs |-> RequestsSent(req, net),
              descr |-> descr]

\* api_request(method, endpoint, json_data, params, require_auth) against the
\* credential file f and the network outcome net.  ret is the returned dict
\* or the exception that leaves the call; reqs are the HTTP requests sent.
api_request(f, net, method, endpoint, json_data, params, require_auth) ==
    Request(IF require_auth THEN get_auth_headers(f) ELSE EmptyDict, net,
            [called |-> TRUE, method |-> method, endpoint |-> endpoint,
             json_data |-> json_data, params |-> params,
             require_auth |-> require_auth])

\* ------------------------------------------------------------------ tools
\* A tool's outcome: ret is the returned str (or the exception that leaves
\* the tool), reqs the HTTP requests it sent, result/descr the api_request
\* result and descriptor (when it called api_request), fs the filesystem it
\* leaves and saves the number of save_credentials calls.
NoApi(fs, ret) ==
    [ret |-> ret, reqs |-> <<>>, result |-> None, descr |-> NoDescriptor,
     fs |-> fs, saves |-> 0]
Done(fs, r, ret) ==
    [ret |-> ret, reqs |-> r.reqs, result |-> r.ret, descr |-> r.descr,
     fs |-> fs, saves |-> 0]

\* if result.get("success"): return <ok>
\* return f"<failPrefix>{result.get('error')}"
IfSuccess(fs, r, ok, failPrefix) ==
    IF IsRaise(r.ret) THEN Done(fs, r, r.ret)
    ELSE LET success == Get(r.ret, "success", None) IN
         IF IsRaise(success) THEN Done(fs, r, success)
         ELSE IF Truthy(success) THEN Done(fs, r, Str(ok))
         ELSE Done(fs, r, Str(failPrefix \o PyStr(Get(r.ret, "error", None))))

\* if result.get("success"): return f"<okPrefix>{json.dumps(result, indent=2)}"
\* return f"<failPrefix>{result.get('error')}"
IfSuccessDump(fs, r, okPrefix, failPrefix) ==
    IF IsRaise(r.ret) THEN Done(fs, r, r.ret)
    ELSE LET success == Get(r.ret, "success", None) IN
         IF IsRaise(success) THEN Done(fs, r, success)
         ELSE IF Truthy(success) THEN Done(fs, r, Str(okPrefix \o dumps(r.ret)))
         ELSE Done(fs, r, Str(failPrefix \o PyStr(Get(r.ret, "error", None))))

\* if result.get("success") is False: return f"<failPrefix>{result.get('error')}"
\* return json.dumps(result, indent=2)
UnlessFailed(fs, r, failPrefix) ==
    IF IsRaise(r.ret) THEN Done(fs, r, r.ret)
    ELSE LET success == Get(r.ret, "success", None) IN
         IF IsRaise(success) THEN Done(fs, r, success)
         ELSE IF success = PyBool(FALSE)
         THEN Done(fs, r, Str(failPrefix \o PyStr(Get(r.ret, "error", None))))
         ELSE Done(fs, r, Str(dumps(r.ret)))

\* if result.get("success"): return result.get("message", <default>)
\* return f"<failPrefix>{result.get('error')}"
MessageOr(fs, r, default, failPrefix) ==
    IF IsRaise(r.ret) THEN Done(fs, r, r.ret)
    ELSE LET success == Get(r.ret, "success", None) IN
         IF IsRaise(success) THEN Done(fs, r, success)
         ELSE IF Truthy(success) THEN Done(fs, r, Get(r.ret, "message", Str(default)))
         ELSE Done(fs, r, Str(failPrefix \o PyStr(Get(r.ret, "error", None))))

\* the saved record taking the agent name from the server's payload
NewCredentials_server_name(name, agent_data) ==
    Dict([api_key |-> Get(agent_data, "api_key", None),
          agent_name |-> Get(agent_data, "name", None),
          claim_url |-> Get(agent_data, "claim_url", None),
          verification_code |-> Get(agent_data, "verification_code", None)])

\* the record register_on_moltbook saves
NewCredentials(name, agent_data) ==
    Dict([api_key |-> Get(agent_data, "api_key", None),
          agent_name |-> Str(name),
          claim_url |-> Get(agent_data, "claim_url", None),
          verification_code |-> Get(agent_data, "verification_code", None)])

\* registration writing the record before looking at the result
registration_result_saves_first(fs, r, name) ==
    LET agent_data == Get(r.ret, "agent", None)
        saved == save_credentials(fs, Dict([api_key |-> None, agent_name |-> Str(name)]))
    IN  IF IsRaise(agent_data) \/ ~IsDict(agent_data) \/ ~Truthy(agent_data)
        THEN [ret |-> Str(<<"Registration failed: ">>), reqs |-> r.reqs, result |-> r.ret,
              descr |-> r.descr, fs |-> saved, saves |-> 1]
        ELSE [ret |-> Str(<<"Successfully registered on Moltbook!\n\n", "Agent Name: ">>
                          \o name \o <<"\n", "Claim URL: ">>
                          \o PyStr(Get(agent_data, "claim_url", None))),
              reqs |-> r.reqs, result |-> r.ret, descr |-> r.descr,
              fs |-> save_credentials(fs, NewCredentials(name, agent_data)),
              saves |-> 1]

\* register_on_moltbook once api_request has returned r
registration_result(fs, r, name) ==
    LET agent_data == Get(r.ret, "agent", None) IN
    IF IsRaise(agent_data) THEN Done(fs, r, agent_data)
    ELSE IF ~Truthy(agent_data)
    THEN Done(fs, r, Str(<<"Registration failed: ">> \o PyStr(r.ret)))
    ELSE IF ~IsDict(agent_data) THEN Done(fs, r, Get(agent_data, "api_key", None))
    ELSE [ret |-> Str(<<"Successfully registered on Moltbook!\n\n", "Agent Name: ">>
                      \o name
                      \o <<"\n", "Claim URL: ">>
                      \o PyStr(Get(agent_data, "claim_url", None))
                      \o <<"\n", "Verification Code: ">>
                      \o PyStr(Get(agent_data, "verification_code", None))
                      \o <<"\n\n",
                           "IMPORTANT: Send the claim URL to your human owner. ",
                           "They need to verify ownership via Twitter/X to activate the account.\n\n",
                           "Credentials saved to: ">> \o CREDENTIALS_FILE),
          reqs |-> r.reqs, result |-> r.ret, descr |-> r.descr,
          fs |-> save_credentials(fs, NewCredentials(name, agent_data)),
          saves |-> 1]

\* registration that does not look at the stored record
register_with_unchecked(fs, net, name, description, existing) ==
    registration_result(fs, api_request(fs.file, net, "POST", <<"/agents/register">>,
                                        Dict([name |-> Str(name),
                                              description |-> Str(description)]),
                                        None, FALSE), name)

\* register_on_moltbook once load_credentials() has returned existing
register_with(fs, net, name, description, existing) ==
    LET api_key == IF Truthy(existing) THEN Get(existing, "api_key", None) ELSE None
    IN  IF IsRaise(existing) THEN NoApi(fs, existing)
        ELSE IF IsRaise(api_key) THEN NoApi(fs, api_key)
        ELSE IF Truthy(api_key)
        THEN NoApi(fs, Str(<<"Already registered as ">>
                           \o PyStr(Get(existing, "agent_name", None))
                           \o <<". API key exists.">>))
        ELSE registration_result(fs,
                 api_request(fs.file, net, "POST", <<"/agents/register">>,
                             Dict([name |-> Str(name), description |-> Str(description)]),
                             None, FALSE),
                 name)

register_on_moltbook(fs, net, name, description) ==
    register_with(fs, net, name, description, load_credentials(fs.file))

\* check_moltbook_status once api_request has returned r
status_result(fs, r, credentials) ==
    LET success == Get(r.ret, "success", None)
    IN  IF IsRaise(r.ret) THEN Done(fs, r, r.ret)
        ELSE IF IsRaise(success) THEN Done(fs, r, success)
        ELSE IF success = PyBool(FALSE)
        THEN Done(fs, r, Str(<<"Status check failed: ">>
                             \o PyStr(Get(r.ret, "error", None))))
        ELSE Done(fs, r, Str(<<"Moltbook Status:\n", "- Agent Name: ">>
                             \o PyStr(Get(credentials, "agent_name", None))
                             \o <<"\n", "- Status: ">>
                             \o PyStr(Get(r.ret, "status", Str(<<"unknown">>)))
                             \o <<"\n", "- Claim URL: ">>
                             \o PyStr(Get(credentials, "claim_url", None))))

\* check_moltbook_status once load_credentials() has returned credentials
status_with(fs, net, credentials) ==
    LET api_key == IF Truthy(credentials) THEN Get(credentials, "api_key", None) ELSE None
    IN  IF IsRaise(credentials) THEN NoApi(fs, credentials)
        ELSE IF IsRaise(api_key) THEN NoApi(fs, api_key)
        ELSE IF ~Truthy(api_key)
        THEN NoApi(fs, Str(<<"Not registered on Moltbook yet. Use register_on_moltbook to register.">>))
        ELSE status_result(fs,
                 api_request(fs.file, net, "GET", <<"/agents/status">>, None, None, TRUE),
                 credentials)

check_moltbook_status(fs, net) == status_with(fs, net, load_credentials(fs.file))

get_my_profile(fs, net) ==
    UnlessFailed(fs, api_request(fs.file, net, "GET", <<"/agents/me">>, None, None, TRUE),
                 <<"Failed to get profile: ">>)

\* description and metadata are Python values (None when not given)
update_my_profile(fs, net, description, metadata) ==
    LET data == (IF Truthy(metadata) THEN "metadata" :> metadata ELSE EmptyMap)
                @@ (IF Truthy(description) THEN "description" :> description ELSE EmptyMap)
    IN  IF ~Truthy(Dict(data))
        THEN NoApi(fs, Str(<<"No updates provided. Specify description and/or metadata.">>))
        ELSE IfSuccess(fs, api_request(fs.file, net, "PATCH", <<"/agents/me">>,
                                       Dict(data), None, TRUE),
                       <<"Profile updated successfully!">>, <<"Profile update failed: ">>)

\* Path(file_path).exists(), with files the regular files and dirs the
\* directories of the local filesystem
path_exists_always(files, dirs, file_path) == TRUE

path_exists(files, dirs, file_path) == file_path \in files \cup dirs

\* open(path, "rb"): None when the file opens, else the OSError it raises
open_rb(files, dirs, file_path) ==
    IF file_path \in dirs
    THEN Raise("IsADirectoryError",
               <<"[Errno 21] Is a directory: ">> \o PyRepr(Str(file_path)))
    ELSE IF file_path \notin files
    THEN Raise("FileNotFoundError",
               <<"[Errno 2] No such file or directory: ">> \o PyRepr(Str(file_path)))
    ELSE None

\* the try block of upload_avatar, opened being the outcome of open()
upload_post(fs, net, file_path, api_key, opened) ==
    LET req == [method |-> "POST",
                url |-> MOLTBOOK_API_BASE \o <<"/agents/me/avatar">>,
                json |-> None,
                params |-> None,
                headers |-> ("Authorization" :> Str(<<"Bearer ">> \o PyStr(api_key))),
                files |-> Str(file_path),
                timeout |-> 30]
        ret == IF net.kind = "error"
               THEN Str(<<"Avatar upload failed: ">> \o net.msg)
               ELSE IF ~is_success(net.status)
               THEN Str(<<"Avatar upload failed: ">>
                        \o StatusErrorMessage(net.status, req.url))
               ELSE Str(<<"Avatar uploaded successfully!">>)
    IN  IF IsRaise(opened)
        THEN NoApi(fs, Str(<<"Avatar upload failed: ">> \o opened.msg))
        ELSE [ret |-> ret, reqs |-> <<req>>, result |-> None, descr |-> NoDescriptor,
              fs |-> fs, saves |-> 0]

\* upload_avatar once load_credentials() has returned credentials
upload_with(fs, net, files, dirs, file_path, credentials) ==
    LET api_key == IF Truthy(credentials) THEN Get(credentials, "api_key", None) ELSE None
    IN  IF IsRaise(credentials) THEN NoApi(fs, credentials)
        ELSE IF IsRaise(api_key) THEN NoApi(fs, api_key)
        ELSE IF ~Truthy(api_key) THEN NoApi(fs, Str(NOT_REGISTERED))
        ELSE IF ~path_exists(files, dirs, file_path)
        THEN NoApi(fs, Str(<<"File not found: ">> \o file_path))
        ELSE upload_post(fs, net, file_path, api_key, open_rb(files, dirs, file_path))

upload_avatar(fs, net, files, dirs, file_path) ==
    upload_with(fs, net, files, dirs, file_path, load_credentials(fs.file))

remove_avatar(fs, net) ==
    IfSuccess(fs, api_request(fs.file, net, "DELETE", <<"/agents/me/avatar">>, None, None, TRUE),
              <<"Avatar removed successfully!">>, <<"Avatar removal failed: ">>)

\* create_post once api_request has returned r
post_result(fs, r) ==
    LET success == Get(r.ret, "success", None)
    IN  IF IsRaise(r.ret) THEN Done(fs, r, r.ret)
        ELSE IF IsRaise(success) THEN Done(fs, r, success)
        ELSE IF Truthy(success)
        THEN Done(fs, r, Str(<<"Post created successfully!\n">> \o dumps(r.ret)))
        ELSE Done(fs, r, Str(<<"Post creation failed: ">> \o PyStr(Get(r.ret, "error", None))
                             \o <<"\n", "Hint: ">>
                             \o PyStr(Get(r.ret, "hint", Str(<<"N/A">>)))))

create_post(fs, net, title, content, submolt) ==
    post_result(fs, api_request(fs.file, net, "POST", <<"/posts">>,
                                Dict([submolt |-> Str(submolt), title |-> Str(title),
                                      content |-> Str(content)]), None, TRUE))

create_link_post(fs, net, title, url, submolt) ==
    IfSuccessDump(fs, api_request(fs.file, net, "POST", <<"/posts">>,
                                  Dict([submolt |-> Str(submolt), title |-> Str(title),
                                        url |-> Str(url)]), None, TRUE),
                  <<"Link post created successfully!\n">>, <<"Post creation failed: ">>)

get_feed(fs, net, sort, limit) ==
    UnlessFailed(fs, api_request(fs.file, net, "GET", <<"/posts">>, None,
                                 Dict([sort |-> Str(sort), limit |-> PyInt(limit)]), TRUE),
                 <<"Failed to get feed: ">>)

get_my_feed(fs, net, sort, limit) ==
    UnlessFailed(fs, api_request(fs.file, net, "GET", <<"/feed">>, None,
                                 Dict([sort |-> Str(sort), limit |-> PyInt(limit)]), TRUE),
                 <<"Failed to get feed: ">>)

get_post(fs, net, post_id) ==
    UnlessFailed(fs, api_request(fs.file, net, "GET", <<"/posts/">> \o post_id,
                                 None, None, TRUE),
                 <<"Failed to get post: ">>)

delete_post(fs, net, post_id) ==
    IfSuccess(fs, api_request(fs.file, net, "DELETE", <<"/posts/">> \o post_id,
                              None, None, TRUE),
              <<"Post deleted successfully!">>, <<"Post deletion failed: ">>)

add_comment(fs, net, post_id, content) ==
    IfSuccessDump(fs, api_request(fs.file, net, "POST",
                                  <<"/posts/">> \o post_id \o <<"/comments">>,
                                  Dict([content |-> Str(content)]), None, TRUE),
                  <<"Comment added successfully!\n">>, <<"Comment failed: ">>)

reply_to_comment(fs, net, post_id, parent_comment_id, content) ==
    IfSuccessDump(fs, api_request(fs.file, net, "POST",
                                  <<"/posts/">> \o post_id \o <<"/comments">>,
                                  Dict([content |-> Str(content),
                                        parent_id |-> Str(parent_comment_id)]), None, TRUE),
                  <<"Reply added successfully!\n">>, <<"Reply failed: ">>)

get_comments(fs, net, post_id, sort) ==
    UnlessFailed(fs, api_request(fs.file, net, "GET", <<"/posts/">> \o post_id \o <<"/comments">>,
                                 None, Dict([sort |-> Str(sort)]), TRUE),
                 <<"Failed to get comments: ">>)

\* upvote_post once api_request has returned r
upvote_result(fs, r) ==
    LET success == Get(r.ret, "success", None)
        message == Get(r.ret, "message", Str(<<"Upvoted!">>))
        author == Get(r.ret, "author", None)
        suggestion == Get(r.ret, "suggestion", None)
        author_name == Get(author, "name", None)
        with_author == IF Truthy(author)
                       THEN Str(message.s \o <<"\n", "Author: ">> \o PyStr(author_name))
                       ELSE message
    IN  IF IsRaise(r.ret) THEN Done(fs, r, r.ret)
        ELSE IF IsRaise(success) THEN Done(fs, r, success)
        ELSE IF ~Truthy(success)
        THEN Done(fs, r, Str(<<"Upvote failed: ">> \o PyStr(Get(r.ret, "error", None))))
        ELSE IF Truthy(author) /\ IsRaise(author_name) THEN Done(fs, r, author_name)
        ELSE IF (Truthy(author) \/ Truthy(suggestion)) /\ message.k # "str"
        THEN Done(fs, r, Raise("TypeError", <<"unsupported operand type(s) for +=">>))
        ELSE IF Truthy(suggestion)
        THEN Done(fs, r, Str(with_author.s \o <<"\n">> \o PyStr(suggestion)))
        ELSE Done(fs, r, with_author)

upvote_post(fs, net, post_id) ==
    upvote_result(fs, api_request(fs.file, net, "POST",
                                  <<"/posts/">> \o post_id \o <<"/upvote">>,
                                  None, None, TRUE))

downvote_post(fs, net, post_id) ==
    MessageOr(fs, api_request(fs.file, net, "POST", <<"/posts/">> \o post_id \o <<"/downvote">>,
                              None, None, TRUE),
              <<"Downvoted!">>, <<"Downvote failed: ">>)

upvote_comment(fs, net, comment_id) ==
    MessageOr(fs, api_request(fs.file, net, "POST", <<"/comments/">> \o comment_id \o <<"/upvote">>,
                              None, None, TRUE),
              <<"Comment upvoted!">>, <<"Upvote failed: ">>)

downvote_comment(fs, net, comment_id) ==
    MessageOr(fs, api_request(fs.file, net, "POST", <<"/comments/">> \o comment_id \o <<"/downvote">>,
                              None, None, TRUE),
              <<"Comment downvoted!">>, <<"Downvote failed: ">>)

list_submolts(fs, net) ==
    UnlessFailed(fs, api_request(fs.file, net, "GET", <<"/submolts">>, None, None, TRUE),
                 <<"Failed to list submolts: ">>)

get_submolt(fs, net, name) ==
    UnlessFailed(fs, api_request(fs.file, net, "GET", <<"/submolts/">> \o name,
                                 None, None, TRUE),
                 <<"Failed to get submolt: ">>)

create_submolt(fs, net, name, display_name, description) ==
    IfSuccessDump(fs, api_request(fs.file, net, "POST", <<"/submolts">>,
                                  Dict([name |-> Str(name), display_name |-> Str(display_name),
                                        description |-> Str(description)]), None, TRUE),
                  <<"Submolt created successfully!\n">>, <<"Submolt creation failed: ">>)

subscribe_to_submolt(fs, net, name) ==
    IfSuccess(fs, api_request(fs.file, net, "POST", <<"/submolts/">> \o name \o <<"/subscribe">>,
                              None, None, TRUE),
              <<"Subscribed to m/">> \o name \o <<"!">>, <<"Subscription failed: ">>)

unsubscribe_from_submolt(fs, net, name) ==
    IfSuccess(fs, api_request(fs.file, net, "DELETE", <<"/submolts/">> \o name \o <<"/subscribe">>,
                              None, None, TRUE),
              <<"Unsubscribed from m/">> \o name \o <<"!">>, <<"Unsubscription failed: ">>)

get_submolt_feed(fs, net, name, sort, limit) ==
    UnlessFailed(fs, api_request(fs.file, net, "GET", <<"/submolts/">> \o name \o <<"/feed">>,
                                 None, Dict([sort |-> Str(sort), limit |-> PyInt(limit)]), TRUE),
                 <<"Failed to get submolt feed: ">>)

follow_user(fs, net, username) ==
    IfSuccess(fs, api_request(fs.file, net, "POST", <<"/agents/">> \o username \o <<"/follow">>,
                              None, None, TRUE),
              <<"Now following ">> \o username \o <<"!">>, <<"Follow failed: ">>)

unfollow_user(fs, net, username) ==
    IfSuccess(fs, api_request(fs.file, net, "DELETE", <<"/agents/">> \o username \o <<"/follow">>,
                              None, None, TRUE),
              <<"Unfollowed ">> \o username \o <<"!">>, <<"Unfollow failed: ">>)

get_user_profile(fs, net, username) ==
    UnlessFailed(fs, api_request(fs.file, net, "GET", <<"/agents/profile">>, None,
                                 Dict([name |-> Str(username)]), TRUE),
                 <<"Failed to get profile: ">>)

search_moltbook(fs, net, query, limit) ==
    UnlessFailed(fs, api_request(fs.file, net, "GET", <<"/search">>, None,
                                 Dict([q |-> Str(query), limit |-> PyInt(limit)]), TRUE),
                 <<"Search failed: ">>)

\* ----------------------------------------------------------------- inputs
Ids == {<<"p1">>, <<"p2">>}
Names == {<<"Fido">>, <<"Fi", Quote, "do">>}
Texts == {<<"a good boy">>}
Sorts == {<<"hot">>, <<"bogus">>}
Limits == {25}
Paths == {<<"avatar.png">>, <<"missing.png">>, <<"pictures">>}
Descriptions == {None, Str(<<>>), Str(<<"a good boy">>)}
Metadatas == {None, EmptyDict, Dict([mood |-> Str(<<"happy">>)])}

Statuses == {200, 204, 302, 404, 500}

AgentPayload ==
    Dict([agent |-> Dict([api_key |-> Str(<<"k1">>),
                          claim_url |-> Str(<<"https://", "moltbook.com/claim/1">>),
                          verification_code |-> Str(<<"123">>)])])

\* response bodies: raw texts, and texts of JSON documents
Bodies ==
    { <<>>,
      <<"<html>", "Bad Gateway", "</html>">>,
      <<"{", Quote, "error", Quote>>,
      <<"{", Quote, "error", Quote, ":", " ", Quote, "Invalid ", "token", Quote, ",",
        Quote, "hint", Quote, ":", Quote, "Register again", Quote, "}">>,
      <<"{", Quote, "error", Quote, ":", Quote, "Rate limited", Quote, "}", "\n">>,
      <<"[", "1", "]">>,
      dumps(Dict([message |-> Str(<<"no such thing">>)])),
      dumps(Dict([success |-> PyBool(TRUE), message |-> Str(<<"ok">>)])),
      dumps(Dict([success |-> PyBool(TRUE),
                  author |-> Dict([name |-> Str(<<"Rex">>)]),
                  suggestion |-> Str(<<"follow Rex">>)])),
      dumps(Dict([success |-> PyBool(FALSE), error |-> Str(<<"rejected">>)])),
      dumps(Dict([status |-> Str(<<"claimed">>)])),
      dumps(AgentPayload),
      dumps(Dict([agent |-> Dict([claim_url |-> Str(<<"https://", "moltbook.com/claim/2">>)])])) }

TransportErrors ==
    { TransportError("ConnectError", <<"[Errno 111] Connection refused">>),
      TransportError("ConnectError", <<"[Errno -2] Name or service not known">>),
      TransportError("ReadTimeout", <<"The read operation timed out">>),
      TransportError("RemoteProtocolError", <<"illegal status line">>) }

NetOutcomes == TransportErrors \cup { Response(s, t) : s \in Statuses, t \in Bodies }

NoNet == [kind |-> "none", exc |-> "", msg |-> <<>>, status |-> 0, text |-> <<>>]

StoredRecord ==
    Dict([api_key |-> Str(<<"k0">>), agent_name |-> Str(<<"Rex">>),
          claim_url |-> Str(<<"https://", "moltbook.com/claim/0">>),
          verification_code |-> Str(<<"000">>)])

\* what the credential path can hold when the process starts
InitialStores ==
    { [dirExists |-> FALSE, file |-> NoFile],
      [dirExists |-> TRUE, file |-> NoFile] }
    \cup { [dirExists |-> TRUE, file |-> FileWith(t)] :
           t \in { <<>>,
                   <<"{", Quote, "api_key", Quote, ":">>,
                   <<"null">>,
                   <<"[", "1", "]">>,
                   <<"{", "}">>,
                   dumps(StoredRecord),
                   dumps(Dict([agent_name |-> Str(<<"Rex">>)])),
                   dumps(Dict([api_key |-> Str(<<>>), agent_name |-> Str(<<"Rex">>)])),
                   dumps(Dict([api_key |-> None, agent_name |-> Str(<<"Rex">>)])) } }

\* ------------------------------------------------------- interactive loop
\* str.strip() and str.lower() on a line given character by character
WhitespaceChars == {" ", "\t", "\n"}

RECURSIVE lstrip(_)
lstrip(s) == IF s # <<>> /\ Head(s) \in WhitespaceChars THEN lstrip(Tail(s)) ELSE s

RECURSIVE rstrip(_)
rstrip(s) ==
    IF s # <<>> /\ s[Len(s)] \in WhitespaceChars THEN rstrip(SubSeq(s, 1, Len(s) - 1)) ELSE s

strip(s) == rstrip(lstrip(s))

UpperCase == <<"A", "B", "C", "D", "E", "F", "G", "H", "I", "J", "K", "L", "M",
               "N", "O", "P", "Q", "R", "S", "T", "U", "V", "W", "X", "Y", "Z">>
LowerCase == <<"a", "b", "c", "d", "e", "f", "g", "h", "i", "j", "k", "l", "m",
               "n", "o", "p", "q", "r", "s", "t", "u", "v", "w", "x", "y", "z">>

lower_char(c) ==
    IF \E i \in DOMAIN UpperCase : UpperCase[i] = c
    THEN LowerCase[CHOOSE i \in DOMAIN UpperCase : UpperCase[i] = c]
    ELSE c

lower(s) == [i \in DOMAIN s |-> lower_char(s[i])]

QUIT_WORDS == {<<"q", "u", "i", "t">>, <<"e", "x", "i", "t">>, <<"q">>}

\* the classes caught by "except Exception"; KeyboardInterrupt is not one
ExceptionClasses == {"EOFError", "RuntimeError"}
IsException(exc) == exc \in ExceptionClasses

\* what one iteration of the loop leaves behind
Iteration(pc, line, user_input, raised, msg, agent_calls, out) ==
    [pc |-> pc, line |-> line, user_input |-> user_input, raised |-> raised,
     msg |-> msg, agent_calls |-> agent_calls, out |-> out]

\* every exception ends the loop
on_exception_fatal(exc, msg, line, user_input, agent_calls) ==
    Iteration("done", line, user_input, exc, msg, agent_calls, <<<<"\nGoodbye!">>>>)

\* the except clauses of the loop, for exc raised inside the try block
on_exception(exc, msg, line, user_input, agent_calls) ==
    IF exc = "KeyboardInterrupt"
    THEN Iteration("done", line, user_input, exc, msg, agent_calls, <<<<"\nGoodbye!">>>>)
    ELSE IF IsException(exc)
    THEN Iteration("prompt", line, user_input, exc, msg, agent_calls,
                   <<<<"\nError: ">> \o msg>>)
    ELSE Iteration("raised", line, user_input, exc, msg, agent_calls, <<>>)

\* one pass through the body of "while True": in is what input() does and
\* answer what agent(user_input) does if it is called
loop_body(in, answer) ==
    LET user_input == IF in.kind = "line" THEN strip(in.text) ELSE <<>>
    IN  IF in.kind = "raise"
        THEN on_exception(in.exc, in.msg, None, <<>>, 0)
        ELSE IF lower(user_input) \in QUIT_WORDS
        THEN Iteration("done", Str(in.text), user_input, "none", <<>>, 0, <<<<"Goodbye!">>>>)
        ELSE IF user_input = <<>>
        THEN Iteration("prompt", Str(in.text), user_input, "none", <<>>, 0, <<>>)
        ELSE IF answer.kind = "raise"
        THEN on_exception(answer.exc, answer.msg, Str(in.text), user_input, 1)
        ELSE Iteration("prompt", Str(in.text), user_input, "none", <<>>, 1,
                       <<<<"\nelcachorrohumano: ">> \o answer.text>>)

\* lines typed at the prompt
Lines ==
    { <<>>,
      <<" ", "\t">>,
      <<"q">>,
      <<"Q">>,
      <<" ", "Q", "u", "I", "t", " ">>,
      <<"e", "x", "i", "t">>,
      <<"E", "X", "I", "T", "\t">>,
      <<"q", "u", "i", "t", "s">>,
      <<"q", " ", "q">>,
      <<"q", "u", "i", "t", " ", "n", "o", "w">>,
      <<"h", "i">>,
      <<" ", "H", "i", " ">> }

Raised(exc, msg) == [kind |-> "raise", exc |-> exc, msg |-> msg, text |-> <<>>]
Typed(text) == [kind |-> "line", exc |-> "none", msg |-> <<>>, text |-> text]

\* input(): a line, Ctrl-C, or end of input
InputErrors ==
    { Raised("KeyboardInterrupt", <<>>), Raised("EOFError", <<"EOF when reading a line">>) }

\* agent(user_input): a result with a message, Ctrl-C, or an error
AgentOutcomes ==
    { [kind |-> "message", exc |-> "none", msg |-> <<>>, text |-> <<"guau">>],
      Raised("KeyboardInterrupt", <<>>),
      Raised("RuntimeError", <<"model unavailable">>) }

\* the loop before its first prompt, the banner printed
ReplStart ==
    Iteration("prompt", None, <<>>, "none", <<>>, 0,
              << <<"elcachorrohumano Agent initialized. Type 'quit' to exit.">>,
                 <<"--------------------------------------------------">> >>)

\* ------------------------------------------------------------------ state
\* the local filesystem outside the credential store: nothing, or one image
\* next to one directory
LocalFilesystems ==
    { [files |-> {}, dirs |-> {}],
      [files |-> {<<"avatar.png">>}, dirs |-> {<<"pictures">>}] }

NoCall ==
    [op |-> "none", args |-> EmptyDict, net |-> NoNet,
     pre |-> [dirExists |-> FALSE, file |-> NoFile],
     reqs |-> <<>>, result |-> None, descr |-> NoDescriptor, ret |-> None, saves |-> 0]

Init ==
    /\ \E st \in InitialStores : dirExists = st.dirExists /\ file = st.file
    /\ \E local \in LocalFilesystems :
           localFiles = local.files /\ localDirs = local.dirs
    /\ call = NoCall
    /\ repl = ReplStart

\* one tool invocation: the agent runtime calls the tool, which runs to
\* completion against the filesystem and the network outcome; call records
\* what it did until the runtime takes the result
Invoke(op, args, net, out) ==
    /\ call = NoCall
    /\ call' = [op |-> op, args |-> args,
                net |-> IF out.reqs = <<>> THEN NoNet ELSE net,
                pre |-> FS,
                reqs |-> out.reqs, result |-> out.result, descr |-> out.descr,
                ret |-> out.ret, saves |-> out.saves]
    /\ dirExists' = out.fs.dirExists
    /\ file' = out.fs.file
    /\ UNCHANGED <<localFiles, localDirs, repl>>

RegisterOnMoltbook ==
    \E net \in NetOutcomes, name \in Names, description \in Texts :
        Invoke("register_on_moltbook",
               Dict([name |-> Str(name), description |-> Str(description)]), net,
               register_on_moltbook(FS, net, name, description))

CheckMoltbookStatus ==
    \E net \in NetOutcomes :
        Invoke("check_moltbook_status", EmptyDict, net, check_moltbook_status(FS, net))

GetMyProfile ==
    \E net \in NetOutcomes :
        Invoke("get_my_profile", EmptyDict, net, get_my_profile(FS, net))

UpdateMyProfile ==
    \E net \in NetOutcomes, description \in Descriptions, metadata \in Metadatas :
        Invoke("update_my_profile",
               Dict([description |-> description, metadata |-> metadata]), net,
               update_my_profile(FS, net, description, metadata))

UploadAvatar ==
    \E net \in NetOutcomes, file_path \in Paths :
        Invoke("upload_avatar", Dict([file_path |-> Str(file_path)]), net,
               upload_avatar(FS, net, localFiles, localDirs, file_path))

RemoveAvatar ==
    \E net \in NetOutcomes :
        Invoke("remove_avatar", EmptyDict, net, remove_avatar(FS, net))

CreatePost ==
    \E net \in NetOutcomes, title \in Texts, content \in Texts, submolt \in {<<"general">>} :
        Invoke("create_post",
               Dict([title |-> Str(title), content |-> Str(content), submolt |-> Str(submolt)]),
               net, create_post(FS, net, title, content, submolt))

CreateLinkPost ==
    \E net \in NetOutcomes, title \in Texts, url \in {<<"https://", "example.com">>},
       submolt \in {<<"general">>} :
        Invoke("create_link_post",
               Dict([title |-> Str(title), url |-> Str(url), submolt |-> Str(submolt)]),
               net, create_link_post(FS, net, title, url, submolt))

GetFeed ==
    \E net \in NetOutcomes, sort \in Sorts, limit \in Limits :
        Invoke("get_feed", Dict([sort |-> Str(sort), limit |-> PyInt(limit)]), net,
               get_feed(FS, net, sort, limit))

GetMyFeed ==
    \E net \in NetOutcomes, sort \in Sorts, limit \in Limits :
        Invoke("get_my_feed", Dict([sort |-> Str(sort), limit |-> PyInt(limit)]), net,
               get_my_feed(FS, net, sort, limit))

GetPost ==
    \E net \in NetOutcomes, post_id \in Ids :
        Invoke("get_post", Dict([post_id |-> Str(post_id)]), net, get_post(FS, net, post_id))

DeletePost ==
    \E net \in NetOutcomes, post_id \in Ids :
        Invoke("delete_post", Dict([post_id |-> Str(post_id)]), net,
               delete_post(FS, net, post_id))

AddComment ==
    \E net \in NetOutcomes, post_id \in Ids, content \in Texts :
        Invoke("add_comment", Dict([post_id |-> Str(post_id), content |-> Str(content)]), net,
               add_comment(FS, net, post_id, content))

ReplyToComment ==
    \E net \in NetOutcomes, post_id \in Ids, parent_comment_id \in {<<"c1">>}, content \in Texts :
        Invoke("reply_to_comment",
               Dict([post_id |-> Str(post_id), parent_comment_id |-> Str(parent_comment_id),
                     content |-> Str(content)]), net,
               reply_to_comment(FS, net, post_id, parent_comment_id, content))

GetComments ==
    \E net \in NetOutcomes, post_id \in Ids, sort \in {<<"top">>} :
        Invoke("get_comments", Dict([post_id |-> Str(post_id), sort |-> Str(sort)]), net,
               get_comments(FS, net, post_id, sort))

UpvotePost ==
    \E net \in NetOutcomes, post_id \in Ids :
        Invoke("upvote_post", Dict([post_id |-> Str(post_id)]), net,
               upvote_post(FS, net, post_id))

DownvotePost ==
    \E net \in NetOutcomes, post_id \in Ids :
        Invoke("downvote_post", Dict([post_id |-> Str(post_id)]), net,
               downvote_post(FS, net, post_id))

UpvoteComment ==
    \E net \in NetOutcomes, comment_id \in {<<"c1">>} :
        Invoke("upvote_comment", Dict([comment_id |-> Str(comment_id)]), net,
               upvote_comment(FS, net, comment_id))

DownvoteComment ==
    \E net \in NetOutcomes, comment_id \in {<<"c1">>} :
        Invoke("downvote_comment", Dict([comment_id |-> Str(comment_id)]), net,
               downvote_comment(FS, net, comment_id))

ListSubmolts ==
    \E net \in NetOutcomes :
        Invoke("list_submolts", EmptyDict, net, list_submolts(FS, net))

GetSubmolt ==
    \E net \in NetOutcomes, name \in {<<"general">>} :
        Invoke("get_submolt", Dict([name |-> Str(name)]), net, get_submolt(FS, net, name))

CreateSubmolt ==
    \E net \in NetOutcomes, name \in {<<"dogs">>}, display_name \in {<<"Dogs">>},
       description \in Texts :
        Invoke("create_submolt",
               Dict([name |-> Str(name), display_name |-> Str(display_name),
                     description |-> Str(description)]), net,
               create_submolt(FS, net, name, display_name, description))

SubscribeToSubmolt ==
    \E net \in NetOutcomes, name \in {<<"general">>} :
        Invoke("subscribe_to_submolt", Dict([name |-> Str(name)]), net,
               subscribe_to_submolt(FS, net, name))

UnsubscribeFromSubmolt ==
    \E net \in NetOutcomes, name \in {<<"general">>} :
        Invoke("unsubscribe_from_submolt", Dict([name |-> Str(name)]), net,
               unsubscribe_from_submolt(FS, net, name))

GetSubmoltFeed ==
    \E net \in NetOutcomes, name \in {<<"general">>}, sort \in Sorts, limit \in Limits :
        Invoke("get_submolt_feed",
               Dict([name |-> Str(name), sort |-> Str(sort), limit |-> PyInt(limit)]), net,
               get_submolt_feed(FS, net, name, sort, limit))

FollowUser ==
    \E net \in NetOutcomes, username \in {<<"Rex">>} :
        Invoke("follow_user", Dict([username |-> Str(username)]), net,
               follow_user(FS, net, username))

UnfollowUser ==
    \E net \in NetOutcomes, username \in {<<"Rex">>} :
        Invoke("unfollow_user", Dict([username |-> Str(username)]), net,
               unfollow_user(FS, net, username))

GetUserProfile ==
    \E net \in NetOutcomes, username \in {<<"Rex">>} :
        Invoke("get_user_profile", Dict([username |-> Str(username)]), net,
               get_user_profile(FS, net, username))

SearchMoltbook ==
    \E net \in NetOutcomes, query \in {<<"bones">>}, limit \in Limits :
        Invoke("search_moltbook", Dict([query |-> Str(query), limit |-> PyInt(limit)]), net,
               search_moltbook(FS, net, query, limit))

\* the tool's return value goes back to the agent runtime
ToolReturns ==
    /\ call # NoCall
    /\ call' = NoCall
    /\ UNCHANGED <<dirExists, file, localFiles, localDirs, repl>>

Next ==
    \/ ToolReturns
    \/ RegisterOnMoltbook
    \/ CheckMoltbookStatus
    \/ GetMyProfile
    \/ UpdateMyProfile
    \/ UploadAvatar
    \/ RemoveAvatar
    \/ CreatePost
    \/ CreateLinkPost
    \/ GetFeed
    \/ GetMyFeed
    \/ GetPost
    \/ DeletePost
    \/ AddComment
    \/ ReplyToComment
    \/ GetComments
    \/ UpvotePost
    \/ DownvotePost
    \/ UpvoteComment
    \/ DownvoteComment
    \/ ListSubmolts
    \/ GetSubmolt
    \/ CreateSubmolt
    \/ SubscribeToSubmolt
    \/ UnsubscribeFromSubmolt
    \/ GetSubmoltFeed
    \/ FollowUser
    \/ UnfollowUser
    \/ GetUserProfile
    \/ SearchMoltbook

Spec == Init /\ [][Next]_vars

\* ------------------------------------------------- the store on its own
\* save_credentials and load_credentials applied directly, to any record
CredentialRecords ==
    { Dict([api_key |-> key, agent_name |-> Str(name), claim_url |-> url,
            verification_code |-> Str(<<"123">>)]) :
        key \in {None, Str(<<>>), Str(<<"k1">>)},
        name \in Names,
        url \in {None, Str(<<"https://", "moltbook.com/claim/1">>)} }
    \cup { EmptyDict, Dict([api_key |-> Str(<<"k", Backslash, "2">>)]) }

SaveCredentials ==
    \E credentials \in CredentialRecords :
        LET fs == save_credentials(FS, credentials) IN
        /\ call' = [NoCall EXCEPT !.op = "save_credentials",
                                  !.args = Dict([credentials |-> credentials]),
                                  !.pre = FS, !.saves = 1]
        /\ dirExists' = fs.dirExists
        /\ file' = fs.file
        /\ UNCHANGED <<localFiles, localDirs, repl>>

LoadCredentials ==
    /\ call' = [NoCall EXCEPT !.op = "load_credentials", !.pre = FS,
                              !.ret = load_credentials(file)]
    /\ UNCHANGED <<dirExists, file, localFiles, localDirs, repl>>

StoreNext == SaveCredentials \/ LoadCredentials

SpecStore == Init /\ [][StoreNext]_vars

\* ------------------------------------------------- the loop on its own
\* an iteration in which input() returns a line
ReadLine ==
    /\ repl.pc = "prompt"
    /\ \E text \in Lines, answer \in AgentOutcomes :
           repl' = loop_body(Typed(text), answer)
    /\ UNCHANGED <<dirExists, file, localFiles, localDirs, call>>

\* an iteration in which input() raises
InputRaises ==
    /\ repl.pc = "prompt"
    /\ \E in \in InputErrors, answer \in AgentOutcomes :
           repl' = loop_body(in, answer)
    /\ UNCHANGED <<dirExists, file, localFiles, localDirs, call>>

ReplNext == ReadLine \/ InputRaises

SpecRepl == Init /\ [][ReplNext]_vars

\* ------------------------------------------------------------ properties
\* the stored record of a credential file, when it has one
StoredIn(f) == loads(f.text)
HasRecord(f) == f.exists /\ IsDict(StoredIn(f))
\* no file, or a record whose api_key is missing, null or empty
Unauthenticated(f) ==
    \/ ~f.exists
    \/ /\ HasRecord(f)
       /\ \/ "api_key" \notin DOMAIN StoredIn(f).d
          \/ StoredIn(f).d["api_key"] \in {None, Str(<<>>)}
\* a record with a non-empty string api_key
HasKey(f) ==
    /\ HasRecord(f)
    /\ "api_key" \in DOMAIN StoredIn(f).d
    /\ StoredIn(f).d["api_key"].k = "str"
    /\ Len(StoredIn(f).d["api_key"].s) > 0

ApiCalled == call.descr.called
Responded == ApiCalled /\ call.net.kind = "response"
Is2xx(status) == status \in 200..299
Contains(s, sub) ==
    \E i \in 1..(Len(s) - Len(sub) + 1) : SubSeq(s, i, i + Len(sub) - 1) = sub

\* C1: an api_request with require_auth = true, made when the credential file
\* is absent or its record has no or an empty api_key, returns exactly
\* {success: False, error: "Not registered on Moltbook. Use
\* register_on_moltbook first."} and sends no HTTP request.
C1_NoCredentialNoRequest ==
    (ApiCalled /\ call.descr.require_auth /\ Unauthenticated(call.pre.file))
    => /\ call.result =
            [k |-> "dict",
             d |-> [success |-> [k |-> "bool", b |-> FALSE],
                    error |-> [k |-> "str",
                               s |-> <<"Not registered on Moltbook. Use register_on_moltbook first.">>]]]
       /\ Len(call.reqs) = 0

C1_Witness ==
    /\ ApiCalled /\ call.descr.require_auth
    /\ call.pre.file.exists
    /\ HasRecord(call.pre.file)
    /\ "api_key" \in DOMAIN StoredIn(call.pre.file).d
    /\ StoredIn(call.pre.file).d["api_key"] = Str(<<>>)
    /\ call.result.d["success"] = PyBool(FALSE)
    /\ call.reqs = <<>>

\* C2: when the HTTP request fails at transport level, api_request returns
\* {success: False, error: <message of the failure>} and no exception leaves
\* the call.
C2_TransportFailureShape ==
    (ApiCalled /\ call.net.kind = "error")
    => /\ ~IsRaise(call.result)
       /\ call.result = Dict([success |-> PyBool(FALSE), error |-> Str(call.net.msg)])

C2_Witness ==
    /\ ApiCalled
    /\ call.net.kind = "error"
    /\ call.net.exc = "ConnectError"
    /\ call.result.d["error"] = Str(<<"[Errno 111] Connection refused">>)

\* C3: for a non-2xx response whose body is a JSON object with an error field
\* (and maybe a hint field), api_request returns success = False, error = the
\* body's error field and hint = the body's hint field (None when the body
\* has none).
C3_ErrorBodyReflected ==
    (/\ Responded
     /\ ~Is2xx(call.net.status)
     /\ IsDict(loads(call.net.text))
     /\ "error" \in DOMAIN loads(call.net.text).d)
    => LET body == loads(call.net.text).d IN
       /\ IsDict(call.result)
       /\ DOMAIN call.result.d = {"success", "error", "hint"}
       /\ call.result.d["success"] = PyBool(FALSE)
       /\ call.result.d["error"] = body["error"]
       /\ call.result.d["hint"] = IF "hint" \in DOMAIN body THEN body["hint"] ELSE None

C3_Witness ==
    /\ Responded
    /\ call.net.status = 404
    /\ call.net.text = <<"{", Quote, "error", Quote, ":", " ", Quote, "Invalid ", "token", Quote, ",",
                         Quote, "hint", Quote, ":", Quote, "Register again", Quote, "}">>
    /\ call.result.d["error"] = Str(<<"Invalid ", "token">>)
    /\ call.result.d["hint"] = Str(<<"Register again">>)

\* C4: for a non-2xx response whose body is not JSON, api_request returns
\* {success: False, error: "<status code> - <raw response text>"}, with no
\* hint.
C4_RawBodyReported ==
    (/\ Responded
     /\ ~Is2xx(call.net.status)
     /\ IsRaise(loads(call.net.text)))
    => /\ IsDict(call.result)
       /\ DOMAIN call.result.d = {"success", "error"}
       /\ call.result.d["success"] = PyBool(FALSE)
       /\ call.result.d["error"] = Str(<<ToString(call.net.status), " - ">> \o call.net.text)

C4_Witness ==
    /\ Responded
    /\ call.net.status = 500
    /\ call.net.text = <<"<html>", "Bad Gateway", "</html>">>
    /\ call.result.d["error"] = Str(<<"500", " - ", "<html>", "Bad Gateway", "</html>">>)

\* C5 as stated: every 2xx response is returned as its parsed JSON body,
\* and is never turned into the failure shape.
C5_Every2xxIsReturnedVerbatim ==
    (Responded /\ Is2xx(call.net.status))
    => /\ ~IsRaise(loads(call.net.text))
       /\ call.result = loads(call.net.text)

\* C5: a 2xx response whose body parses as JSON is returned as the parsed
\* body, unchanged; a 2xx response whose body does not parse is reported as
\* {success: False, error: <message of the parse error>}.
C5_ParsedBodyVerbatim ==
    (Responded /\ Is2xx(call.net.status))
    => IF IsRaise(loads(call.net.text))
       THEN call.result = Dict([success |-> PyBool(FALSE),
                                error |-> Str(loads(call.net.text).msg)])
       ELSE call.result = loads(call.net.text)

C5_Witness ==
    /\ Responded
    /\ call.net.status = 200
    /\ call.net.text = <<"{", Quote, "error", Quote, ":", Quote, "Rate limited", Quote, "}", "\n">>
    /\ call.result = Dict([error |-> Str(<<"Rate limited">>)])

NotRegisteredResult ==
    Dict([success |-> PyBool(FALSE),
          error |-> Str(<<"Not registered on Moltbook. Use register_on_moltbook first.">>)])

\* C6 as stated: a credential file that exists but does not parse is treated
\* as absent, so an authenticated api_request answers "not registered" and
\* nothing is raised.
C6_MalformedFileIsAbsent ==
    (/\ ApiCalled /\ call.descr.require_auth
     /\ call.pre.file.exists /\ IsRaise(StoredIn(call.pre.file)))
    => /\ ~IsRaise(call.result)
       /\ ~IsRaise(call.ret)
       /\ call.result = NotRegisteredResult

\* C6: load_credentials returns None when the file does not exist and the
\* stored record when the file parses; when the file exists but is not valid
\* JSON it raises JSONDecodeError, and an authenticated api_request then
\* raises that error, before any request, instead of answering "not
\* registered".
C6_LoadOutcomes ==
    (ApiCalled /\ call.descr.require_auth)
    => /\ ~call.pre.file.exists => call.result = NotRegisteredResult
       /\ (call.pre.file.exists /\ IsRaise(StoredIn(call.pre.file)))
          => /\ call.result = Raise("JSONDecodeError", StoredIn(call.pre.file).msg)
             /\ call.ret = call.result
             /\ call.reqs = <<>>
       /\ HasKey(call.pre.file)
          => /\ Len(call.reqs) = 1
             /\ call.reqs[1].headers["Authorization"] =
                    Str(<<"Bearer ">> \o StoredIn(call.pre.file).d["api_key"].s)

C6_Witness ==
    /\ ApiCalled /\ call.descr.require_auth
    /\ call.pre.file = FileWith(<<"{", Quote, "api_key", Quote, ":">>)
    /\ IsRaise(call.ret)
    /\ call.ret.exc = "JSONDecodeError"
    /\ call.reqs = <<>>

\* C7: whatever the store held before (no directory, no file, any earlier
\* content), load_credentials() after save_credentials(r) returns a record
\* equal to r, field for field; nothing of an earlier record survives.
C7_SaveLoadRoundTrip ==
    [][(call.op = "save_credentials" /\ call'.op = "load_credentials")
       => call'.ret = call.args.d["credentials"]]_vars

C7_Witness ==
    /\ call.op = "save_credentials"
    /\ call.pre.file = FileWith(dumps(StoredRecord))
    /\ call.args.d["credentials"] = Dict([api_key |-> Str(<<"k", Backslash, "2">>)])
    /\ load_credentials(file) = Dict([api_key |-> Str(<<"k", Backslash, "2">>)])

AuthenticatedOps ==
    { "check_moltbook_status", "get_my_profile", "update_my_profile", "upload_avatar",
      "remove_avatar", "create_post", "create_link_post", "get_feed", "get_my_feed",
      "get_post", "delete_post", "add_comment", "reply_to_comment", "get_comments",
      "upvote_post", "downvote_post", "upvote_comment", "downvote_comment",
      "list_submolts", "get_submolt", "create_submolt", "subscribe_to_submolt",
      "unsubscribe_from_submolt", "get_submolt_feed", "follow_user", "unfollow_user",
      "get_user_profile", "search_moltbook" }

\* the two invocations that return on a local check before any request
ReturnsLocally ==
    \/ /\ call.op = "update_my_profile"
       /\ ~Truthy(call.args.d["description"])
       /\ ~Truthy(call.args.d["metadata"])
    \/ /\ call.op = "upload_avatar"
       /\ call.args.d["file_path"].s \notin localFiles

\* C8 as stated: every authenticated operation invoked with a stored
\* non-empty api_key issues exactly one request.
C8_EveryAuthenticatedOpSendsOne ==
    (call.op \in AuthenticatedOps /\ HasKey(call.pre.file)) => Len(call.reqs) = 1

\* C8: every tool invocation issues at most one HTTP request, whatever the
\* outcome; an authenticated operation invoked with a stored non-empty
\* api_key issues exactly one, to its method and path (upvote_post(p): POST
\* /posts/<p>/upvote) with Authorization: Bearer <the stored api_key>, unless
\* it returns on a local check first (update_my_profile without description
\* and metadata, upload_avatar with a path that does not exist or does not
\* open as a file), and then it issues none.
C8_RequestsPerInvocation ==
    /\ Len(call.reqs) <= 1
    /\ (call.op \in AuthenticatedOps /\ HasKey(call.pre.file))
       => IF ReturnsLocally THEN call.reqs = <<>>
          ELSE /\ Len(call.reqs) = 1
               /\ call.reqs[1].headers["Authorization"] =
                      Str(<<"Bearer ">> \o StoredIn(call.pre.file).d["api_key"].s)
               /\ ApiCalled => /\ call.reqs[1].method = call.descr.method
                               /\ call.reqs[1].url =
                                      <<"https://www.moltbook.com/api/v1">> \o call.descr.endpoint
               /\ call.op = "upvote_post"
                  => /\ call.reqs[1].method = "POST"
                     /\ call.reqs[1].url =
                            <<"https://www.moltbook.com/api/v1", "/posts/">>
                            \o call.args.d["post_id"].s \o <<"/upvote">>

C8_Witness ==
    /\ call.op = "upvote_post"
    /\ call.args.d["post_id"] = Str(<<"p1">>)
    /\ call.pre.file = FileWith(dumps(StoredRecord))
    /\ call.net.kind = "error"
    /\ Len(call.reqs) = 1
    /\ call.reqs[1].headers["Authorization"] = Str(<<"Bearer ", "k0">>)
    /\ call.reqs[1].url = <<"https://www.moltbook.com/api/v1", "/posts/", "p1", "/upvote">>

\* the registration endpoint answered 2xx with a payload holding an agent
\* object that has api_key, claim_url and verification_code
AgentReturned ==
    /\ call.net.kind = "response"
    /\ Is2xx(call.net.status)
    /\ IsDict(loads(call.net.text))
    /\ "agent" \in DOMAIN loads(call.net.text).d
    /\ IsDict(loads(call.net.text).d["agent"])
    /\ {"api_key", "claim_url", "verification_code"}
           \subseteq DOMAIN loads(call.net.text).d["agent"].d

\* C9: register_on_moltbook(name, description), invoked while
\* unauthenticated and answered with an agent object {api_key, claim_url,
\* verification_code}, leaves the store holding {api_key: agent.api_key,
\* agent_name: name, claim_url: agent.claim_url, verification_code:
\* agent.verification_code}, returns a string containing name and the claim
\* URL, and sent its request without an Authorization header.
C9_RegistrationSaved ==
    (call.op = "register_on_moltbook" /\ Unauthenticated(call.pre.file) /\ AgentReturned)
    => LET agent == loads(call.net.text).d["agent"].d IN
       /\ file.exists
       /\ StoredIn(file) = Dict([api_key |-> agent["api_key"],
                                 agent_name |-> call.args.d["name"],
                                 claim_url |-> agent["claim_url"],
                                 verification_code |-> agent["verification_code"]])
       /\ call.ret.k = "str"
       /\ Contains(call.ret.s, call.args.d["name"].s)
       /\ Contains(call.ret.s, PyStr(agent["claim_url"]))
       /\ Len(call.reqs) = 1
       /\ "Authorization" \notin DOMAIN call.reqs[1].headers
       /\ ~call.descr.require_auth

C9_Witness ==
    /\ call.op = "register_on_moltbook"
    /\ ~call.pre.dirExists
    /\ call.args.d["name"] = Str(<<"Fi", Quote, "do">>)
    /\ AgentReturned
    /\ file.exists
    /\ StoredIn(file).d["api_key"] = Str(<<"k1">>)
    /\ StoredIn(file).d["agent_name"] = Str(<<"Fi", Quote, "do">>)
    /\ Contains(call.ret.s, <<"https://", "moltbook.com/claim/1">>)

\* result.get("agent") is truthy
HasAgent(result) == IsDict(result) /\ Truthy(Get(result, "agent", None))

\* C10: only registration and profile updates may write the credential
\* file: every other tool invocation leaves it (and its directory) as it
\* was, whether it succeeds or fails, and so does a register_on_moltbook
\* whose result has no agent object.
C10_CredentialFileFrame ==
    [][/\ call'.op \in AuthenticatedOps \ {"update_my_profile"}
          => (file' = file /\ dirExists' = dirExists)
       /\ (call'.op = "register_on_moltbook" /\ ~HasAgent(call'.result))
          => (file' = file /\ dirExists' = dirExists)]_vars

C10_Witness ==
    /\ call.op = "register_on_moltbook"
    /\ Len(call.reqs) = 1
    /\ call.net.kind = "response"
    /\ call.net.status = 200
    /\ ~HasAgent(call.result)
    /\ ~call.pre.file.exists
    /\ ~file.exists

\* ------------------------------------------------------------ upload_avatar
UploadPath == call.args.d["file_path"].s
StoredKey(f) == StoredIn(f).d["api_key"]

\* the one request of upload_avatar: a multipart POST of the file to
\* /agents/me/avatar with the stored key as bearer token
IsAvatarPost(req, f, file_path) ==
    /\ req.method = "POST"
    /\ req.url = <<"https://www.moltbook.com/api/v1", "/agents/me/avatar">>
    /\ req.headers = ("Authorization" :> Str(<<"Bearer ">> \o StoredKey(f).s))
    /\ req.files = Str(file_path)
    /\ req.json = None

\* the local checks of upload_avatar, in order, each answered with its
\* message and no request
UploadChecksFirst ==
    /\ Unauthenticated(call.pre.file)
       => /\ call.ret = Str(<<"Not registered on Moltbook. Use register_on_moltbook first.">>)
          /\ call.reqs = <<>>
    /\ (HasKey(call.pre.file) /\ UploadPath \notin localFiles \cup localDirs)
       => /\ call.ret = Str(<<"File not found: ">> \o UploadPath)
          /\ call.reqs = <<>>

\* C11 as stated: unauthenticated, upload_avatar returns the not-registered
\* message; otherwise with a path that does not exist it returns "File not
\* found: <path>"; both without a request; whenever both checks pass it makes
\* a single multipart POST with the bearer header.
C11_ChecksPassMeansOnePost ==
    call.op = "upload_avatar" =>
        /\ UploadChecksFirst
        /\ (HasKey(call.pre.file) /\ UploadPath \in localFiles \cup localDirs)
           => /\ Len(call.reqs) = 1
              /\ IsAvatarPost(call.reqs[1], call.pre.file, UploadPath)

\* C11: upload_avatar answers its local failures with a string and no HTTP
\* request: the not-registered message when no api_key is stored, otherwise
\* "File not found: <path>" when the path does not exist, otherwise "Avatar
\* upload failed: <the OSError>" when the path exists but does not open as a
\* file (a directory); when the file opens it makes exactly one multipart
\* POST to /agents/me/avatar with Authorization: Bearer <stored api_key>,
\* whatever the outcome of that request.
C11_UploadPreconditions ==
    call.op = "upload_avatar" =>
        /\ UploadChecksFirst
        /\ (HasKey(call.pre.file) /\ UploadPath \in localDirs)
           => /\ call.ret.k = "str"
              /\ SubSeq(call.ret.s, 1, 1) = <<"Avatar upload failed: ">>
              /\ call.reqs = <<>>
        /\ (HasKey(call.pre.file) /\ UploadPath \in localFiles)
           => /\ Len(call.reqs) = 1
              /\ IsAvatarPost(call.reqs[1], call.pre.file, UploadPath)
              /\ call.ret.k = "str"

C11_Witness ==
    /\ call.op = "upload_avatar"
    /\ HasKey(call.pre.file)
    /\ UploadPath = <<"avatar.png">>
    /\ UploadPath \in localFiles
    /\ Len(call.reqs) = 1
    /\ call.reqs[1].files = Str(<<"avatar.png">>)
    /\ call.net.kind = "error"
    /\ SubSeq(call.ret.s, 1, 1) = <<"Avatar upload failed: ">>

\* ------------------------------------------------------- a key, once stored
\* C13: once the credential file holds a record with a non-empty api_key, no
\* tool invocation changes or removes the file, and every register_on_moltbook
\* from then on returns "Already registered as <stored agent_name>. API key
\* exists." without an HTTP request and without calling save_credentials; so
\* a stored api_key is never replaced.
C13_StoredKeyIsFinal ==
    [][HasKey(file)
       => /\ file' = file
          /\ dirExists' = dirExists
          /\ call'.op = "register_on_moltbook"
             => /\ call'.ret = Str(<<"Already registered as ">>
                                   \o StoredIn(file).d["agent_name"].s
                                   \o <<". API key exists.">>)
                /\ call'.reqs = <<>>
                /\ call'.saves = 0]_vars

\* a second registration in a process whose first one stored the key
C13_Witness ==
    /\ call.op = "register_on_moltbook"
    /\ HasKey(call.pre.file)
    /\ StoredKey(call.pre.file) = Str(<<"k1">>)
    /\ StoredIn(call.pre.file).d["agent_name"] = Str(<<"Fido">>)
    /\ call.args.d["name"] = Str(<<"Fi", Quote, "do">>)
    /\ call.ret = Str(<<"Already registered as ", "Fido", ". API key exists.">>)
    /\ call.reqs = <<>>
    /\ file = call.pre.file

\* ------------------------------------------------------- the loop's exits
\* the typed lines that are quit, exit or q once trimmed and lower-cased
QuitInputs ==
    { Str(<<"q">>), Str(<<"Q">>), Str(<<" ", "Q", "u", "I", "t", " ">>),
      Str(<<"e", "x", "i", "t">>), Str(<<"E", "X", "I", "T", "\t">>) }
\* the typed lines that are empty once trimmed
BlankInputs == { Str(<<>>), Str(<<" ", "\t">>) }

\* C12: the loop takes a step only while it is running, and a step ends it
\* only when the line read is quit, exit or q (trimmed, any case), which
\* always ends it, or when KeyboardInterrupt was raised; any other exception
\* raised by input() or by agent() is printed as "Error: <message>" and
\* leaves the loop at the next prompt, never escaping it; an empty or blank
\* line goes back to the prompt without calling the agent.
C12_LoopExits ==
    [][/\ repl.pc = "prompt"
       /\ repl'.pc \in {"prompt", "done"}
       /\ repl'.pc = "done"
          => \/ repl'.raised = "KeyboardInterrupt"
             \/ repl'.raised = "none" /\ repl'.line \in QuitInputs
       /\ repl'.line \in QuitInputs
          => repl'.pc = "done" /\ repl'.agent_calls = 0
       /\ repl'.raised \notin {"none", "KeyboardInterrupt"}
          => /\ repl'.pc = "prompt"
             /\ repl'.out = <<<<"\nError: ">> \o repl'.msg>>
       /\ repl'.line \in BlankInputs
          => repl'.pc = "prompt" /\ repl'.agent_calls = 0 /\ repl'.out = <<>>]_vars

\* the agent fails on a typed line and the loop is back at the prompt
C12_Witness ==
    /\ repl.pc = "prompt"
    /\ repl.line = Str(<<" ", "H", "i", " ">>)
    /\ repl.user_input = <<"H", "i">>
    /\ repl.agent_calls = 1
    /\ repl.raised = "RuntimeError"
    /\ repl.out = <<<<"\nError: ", "model unavailable">>>>

====
